---------------------------- MODULE Spec2Model ----------------------------
(***************************************************************************)
(* Model of the catalog-service ingestion pipeline: discovery dedup,       *)
(* AddRepo / UpdateRepo / SaveRepo, preferred-config selection, and the    *)
(* administrative handlers that write the repositories table.              *)
(*                                                                         *)
(* Text values are modelled by their structure:                            *)
(*   - a README is a sequence of words; strings.Contains is word search;   *)
(*   - a name or path is a sequence of segments (or of characters where    *)
(*     concatenation matters);                                             *)
(*   - a JSON column value is a record [k, v]: k = "null" is SQL NULL,     *)
(*     k = "empty" is the Go string "", k = "obj" is the text "{}",        *)
(*     k = "jnull" is the JSON text "null", k = "list" is a JSON array     *)
(*     whose elements are v;                                               *)
(*   - a comma-joined category string is its sequence of tags, the empty   *)
(*     string being the one-tag sequence <<"">> (what strings.Split        *)
(*     returns for it).                                                    *)
(***************************************************************************)
EXTENDS Integers, Sequences, FiniteSets, TLC

VARIABLES
    store,        \* the repositories table: a sequence of rows, id = index
    last,         \* what the most recent operation was given, saw and did
    nops,         \* number of operations performed so far
    runs,         \* overlapping ingestion runs: each run's position and locals
    configs,      \* MarkPreferred: the slice before the call
    marked,       \* MarkPreferred: the slice after the call
    allRepos,     \* searchReposByReadme: collected search results
    uniqueRepos,  \* searchReposByReadme: results after deduplication
    phase         \* position of the pure-function specifications

vars == <<store, last, nops, runs, configs, marked, allRepos, uniqueRepos, phase>>

----------------------------------------------------------------------------
(* Bounds of the model *)

MaxOps == 3          \* operations per behaviour of Spec
MaxRaceOps == 1      \* ingestions started per run in SpecRace
MaxRows == 3         \* rows the table can hold
MaxConfigs == 3      \* length of a config list given to MarkPreferred
MaxResults == 3      \* search results given to the deduplication

----------------------------------------------------------------------------
(* JSON / text values *)

SqlNull == [k |-> "null", v |-> <<>>]
EmptyText == [k |-> "empty", v |-> <<>>]
Placeholder == [k |-> "obj", v |-> <<>>]
JsonNull == [k |-> "jnull", v |-> <<>>]

\* json.Marshal of a non-nil slice
Marshal(list) == [k |-> "list", v |-> list]

\* the "$n::jsonb" casts and JSONB columns: the empty string is no JSON text
JsonbOK(x) == x.k # "empty"

\* rows.Scan into a Go string: NULL cannot be converted
ScanOK(x) == x.k # "null"

\* COALESCE(col::text, dflt)
Coalesce(x, dflt) == IF x.k = "null" THEN dflt ELSE x

\* strings.Contains on a README
Contains(readme, word) == \E i \in DOMAIN readme : readme[i] = word

\* slices.Contains
SliceContains(s, x) == \E i \in DOMAIN s : s[i] = x

\* metadata: "" or a JSON object; only the categories key is tracked
NoMetadata == [k |-> "empty", hasCat |-> FALSE, cats |-> <<>>]
EmptyObject == [k |-> "obj", hasCat |-> FALSE, cats |-> <<>>]
MetaWith(cats) == [k |-> "obj", hasCat |-> TRUE, cats |-> cats]

\* metadata["categories"] of the unmarshalled map, split at ","
ExistingCategories(md) == IF md.hasCat THEN md.cats ELSE <<"">>

----------------------------------------------------------------------------
(* MCPServerConfig and MarkPreferred *)

Cfg(cmd, pref) ==
    [command |-> cmd,
     args |-> IF cmd = "" THEN <<>> ELSE <<"x">>,
     url |-> IF cmd = "" THEN "https://sse" ELSE "",
     preferred |-> pref]

\* index of the first element whose command is one of cmds, 0 when there is
\* none (the code's -1 with 0-based indices)
FirstIndex(list, cmds) ==
    IF \E i \in DOMAIN list : list[i].command \in cmds
    THEN CHOOSE i \in DOMAIN list :
            /\ list[i].command \in cmds
            /\ \A j \in 1..(i - 1) : list[j].command \notin cmds
    ELSE 0

\* preferredIndex after the three loops, each of which runs only while
\* preferredIndex is still -1
Priority(first, second, third) ==
    IF first # 0 THEN first ELSE IF second # 0 THEN second ELSE third

PreferredIndexDockerFirst(list) ==
    Priority(FirstIndex(list, {"docker"}),
             FirstIndex(list, {"uv", "uvx"}),
             FirstIndex(list, {"npx"}))

PreferredIndex(list) ==
    Priority(FirstIndex(list, {"npx"}),
             FirstIndex(list, {"uv", "uvx"}),
             FirstIndex(list, {"docker"}))

\* if preferredIndex != -1 { configs[preferredIndex].Preferred = true }
SetPreferred(list, preferredIndex) ==
    IF preferredIndex # 0
    THEN [list EXCEPT ![preferredIndex].preferred = TRUE]
    ELSE list

MarkPreferred(list) == SetPreferred(list, PreferredIndex(list))

\* the foundPreferred loop of AddRepo / UpdateRepo
FoundPreferred(list) == \E i \in DOMAIN list : list[i].preferred

----------------------------------------------------------------------------
(* The hosting API's answers and the oracle's answers: inputs of the model *)

GithubRepo ==
    [fullName |-> <<"o", "r">>,
     htmlURL |-> <<"https://github.com/o/r">>,
     description |-> "hosted description",
     stars |-> 7,
     language |-> "Go",
     defaultBranch |-> "main"]

Paths == {<<"README.md">>, <<"sub", "README.md">>}

\* fetched README texts: two that carry a launch keyword, one that does not
Readmes == {<<"install", "npx">>, <<"run", "docker", "uv">>, <<"hello">>}

\* the owner's avatar URL
Avatars == {"avatar"}

OracleError ==
    [err |-> TRUE, configs |-> <<>>, category |-> <<"">>,
     name |-> "", description |-> ""]

Answer(list, category) ==
    [err |-> FALSE, configs |-> list, category |-> category,
     name |-> "oracle name", description |-> "oracle description"]

\* what AnalyzeWithOpenAI can return: an error, no config, a URL-based
\* config, or a docker and an npx config; with or without a Verified tag
OracleAnswers ==
    {OracleError,
     Answer(<<>>, <<"Go">>),
     Answer(<<Cfg("", FALSE)>>, <<"Go">>),
     Answer(<<Cfg("docker", FALSE), Cfg("npx", FALSE)>>, <<"Go">>),
     Answer(<<Cfg("docker", FALSE), Cfg("npx", FALSE)>>, <<"Go", "Verified">>)}

\* what the tool-definition backfill can return: an error, or the marshalled
\* tools (a nil slice marshals to null)
ScrapeError == [err |-> TRUE, tools |-> EmptyText]

ScrapeAnswers ==
    {ScrapeError} \cup
    {[err |-> FALSE, tools |-> t] :
        t \in {JsonNull, Marshal(<<>>), Marshal(<<"tool">>)}}

\* request bodies of the manual-edit handlers
ManifestBodies == {Marshal(<<Cfg("uvx", TRUE)>>)}
MetadataBodies == {MetaWith(<<"Go", "Verified">>), EmptyObject}

----------------------------------------------------------------------------
(* The repositories table *)

\* SELECT ... WHERE full_name = $1: index of the first matching row, 0 if none
FindRow(st, fn) ==
    IF \E i \in DOMAIN st : st[i].fullName = fn
    THEN CHOOSE i \in DOMAIN st :
            st[i].fullName = fn /\ \A j \in 1..(i - 1) : st[j].fullName # fn
    ELSE 0

\* SELECT COUNT(*) FROM repositories WHERE full_name = $1
CountRows(st, fn) == Cardinality({i \in DOMAIN st : st[i].fullName = fn})

NoUniqueCheck(st, fn) == TRUE

\* full_name TEXT UNIQUE
UniqueOK(st, fn) == \A i \in DOMAIN st : st[i].fullName # fn

\* the INSERT of SaveRepo: proposed_manifest is not listed and stays NULL
InsertRow(st, repo) ==
    LET md == IF repo.metadata = NoMetadata THEN EmptyObject ELSE repo.metadata
    IN IF /\ JsonbOK(repo.manifest) /\ JsonbOK(md) /\ JsonbOK(repo.tools)
          /\ UniqueOK(st, repo.fullName)
          /\ Len(st) < MaxRows
       THEN [st |-> Append(st, [id |-> Len(st) + 1,
                                fullName |-> repo.fullName,
                                path |-> repo.path,
                                url |-> repo.url,
                                description |-> repo.description,
                                displayName |-> repo.displayName,
                                stars |-> repo.stars,
                                language |-> repo.language,
                                readme |-> repo.readme,
                                manifest |-> repo.manifest,
                                proposed |-> SqlNull,
                                icon |-> repo.icon,
                                metadata |-> md,
                                tools |-> repo.tools]),
             err |-> FALSE]
       ELSE [st |-> st, err |-> TRUE]

\* an UPDATE that leaves the stored manifest and proposal alone
UpdateRowsKeepingManifest(st, repo, proposed) ==
    [st |-> [i \in DOMAIN st |->
               IF st[i].fullName # repo.fullName THEN st[i]
               ELSE [st[i] EXCEPT !.readme = repo.readme]],
     err |-> FALSE]

\* an UPDATE without its WHERE clause
UpdateEveryRow(st, repo, proposed) ==
    [st |-> [i \in DOMAIN st |->
               [st[i] EXCEPT !.readme = repo.readme, !.tools = repo.tools]],
     err |-> FALSE]

DeleteRows(st, repo, proposed) ==
    [st |-> SelectSeq(st, LAMBDA row : row.fullName # repo.fullName), err |-> FALSE]

\* the two UPDATE statements of SaveRepo
UpdateRows(st, repo, proposed) ==
    LET target == IF proposed THEN repo.proposed ELSE repo.manifest
    IN IF JsonbOK(target) /\ JsonbOK(repo.metadata) /\ JsonbOK(repo.tools)
       THEN [st |-> [i \in DOMAIN st |->
                       IF st[i].fullName # repo.fullName THEN st[i]
                       ELSE [st[i] EXCEPT
                               !.url = repo.url,
                               !.description = repo.description,
                               !.displayName = repo.displayName,
                               !.stars = repo.stars,
                               !.readme = repo.readme,
                               !.language = repo.language,
                               !.path = repo.path,
                               !.manifest = IF proposed THEN @ ELSE repo.manifest,
                               !.proposed = IF proposed THEN repo.proposed
                                            ELSE Placeholder,
                               !.icon = repo.icon,
                               !.metadata = repo.metadata,
                               !.tools = repo.tools]],
             err |-> FALSE]
       ELSE [st |-> st, err |-> TRUE]

\* SaveRepo after its existence check returned count
SaveRepoExec(st, repo, proposed, count) ==
    IF count > 0 THEN UpdateRows(st, repo, proposed) ELSE InsertRow(st, repo)

SaveRepo(st, repo, proposed) ==
    SaveRepoExec(st, repo, proposed, CountRows(st, repo.fullName))

----------------------------------------------------------------------------
(* Ingestion: AddRepo, UpdateRepo *)

DirParts(path) == SubSeq(path, 1, Len(path) - 1)

\* a fullName that leaves the README's directory out
BaseFullName(path) == GithubRepo.fullName

DeriveFullName(path) ==
    IF Len(path) > 1 THEN GithubRepo.fullName \o DirParts(path)
    ELSE GithubRepo.fullName

DeriveURL(path) ==
    IF Len(path) > 1
    THEN GithubRepo.htmlURL \o <<"tree", GithubRepo.defaultBranch>> \o DirParts(path)
    ELSE GithubRepo.htmlURL

NoPreFilter(readme) == TRUE

\* the keyword pre-filter
HasLaunchKeyword(readme) ==
    \/ Contains(readme, "mcpServers")
    \/ Contains(readme, "npx")
    \/ Contains(readme, "docker")
    \/ Contains(readme, "uv")

\* the RepoInfo literal AddRepo builds from the hosting API's answers
NewRepoInfo(path, readme, avatar) ==
    [fullName |-> DeriveFullName(path),
     path |-> path,
     url |-> DeriveURL(path),
     description |-> GithubRepo.description,
     displayName |-> "",
     stars |-> GithubRepo.stars,
     language |-> GithubRepo.language,
     readme |-> readme,
     manifest |-> EmptyText,
     proposed |-> EmptyText,
     icon |-> avatar,
     metadata |-> NoMetadata,
     tools |-> EmptyText]

\* QueryRow(...).Scan(&repoFromDB...): ErrNoRows without a row, a Scan error
\* when a scanned column is NULL; the destinations keep their zero values then
ScanRepoFromDB(st, fn) ==
    LET i == FindRow(st, fn)
        zero == [err |-> TRUE, readme |-> <<>>, manifest |-> EmptyText,
                 metadata |-> NoMetadata, tools |-> EmptyText, icon |-> ""]
    IN IF i = 0 THEN zero
       ELSE IF ~ScanOK(st[i].manifest) THEN [zero EXCEPT !.readme = st[i].readme]
       ELSE [err |-> FALSE, readme |-> st[i].readme, manifest |-> st[i].manifest,
             metadata |-> st[i].metadata, tools |-> st[i].tools, icon |-> st[i].icon]

\* "if manifest exists and it is not forced, update proposed_manifest instead"
Proposed(manifest, force) ==
    ~((manifest = EmptyText \/ manifest = Placeholder) \/ force)

\* the else-branch after a successful AnalyzeWithOpenAI, up to the metadata:
\* the marked config list goes into the chosen field
WithAnalysis(repo, proposed, list, answer, md) ==
    [repo EXCEPT
        !.manifest = IF proposed THEN @ ELSE Marshal(list),
        !.proposed = IF proposed THEN Marshal(list) ELSE @,
        !.metadata = md,
        !.description = answer.description,
        !.displayName = answer.name]

\* AddRepo (inline version): metadata["categories"] = analysis.Category on
\* the map unmarshalled from repoInfo.Metadata
InlineMetadata(repo, answer) == MetaWith(answer.category)

\* verified is set when the existing categories do not contain Verified
Verified(existingCategories) == ~SliceContains(existingCategories, "Verified")

\* categories := analysis.Category; if verified { categories += ",Verified" }
Categories(category, verified) ==
    IF verified THEN Append(category, "Verified") ELSE category

\* UpdateRepo: the verified flag and the categories value
UpdateRepoMetadata(repo, answer) ==
    MetaWith(Categories(answer.category,
                        Verified(ExistingCategories(repo.metadata))))

\* the condition under which the tool-definition backfill is called
RunsBackfill(list, tools, force) ==
    FoundPreferred(list) /\ (tools = EmptyText \/ tools = Placeholder \/ force)

\* a scrape error that is only logged
LogsScrapeError(backfill, scrape) == FALSE

\* "error scraping tool definitions": the ingestion returns the error
ReturnsScrapeError(backfill, scrape) == backfill /\ scrape.err

\* ScrapeToolDefinitions stores the marshalled tools in repo.ToolDefinitions
WithTools(repo, backfill, scrape) ==
    IF backfill /\ ~scrape.err THEN [repo EXCEPT !.tools = scrape.tools] ELSE repo

\* if repo.ToolDefinitions == "" { repo.ToolDefinitions = "{}" }
DefaultTools(repo) ==
    IF repo.tools = EmptyText THEN [repo EXCEPT !.tools = Placeholder] ELSE repo

\* what became of the backfill
BackfillStatus(backfill, scrape) ==
    IF ~backfill THEN "skipped" ELSE IF scrape.err THEN "failed" ELSE "ok"

\* the result of the analysis part: whether SaveRepo is reached, and with what
Outcome(save, repo, proposed, answer, list, backfill) ==
    [save |-> save, repo |-> repo, proposed |-> proposed,
     oracleErr |-> answer.err, list |-> list, backfill |-> backfill]

\* an empty config list that is stored like any other
StoresNoConfigs(answer) == FALSE

\* if len(analysis.Configs) == 0 { return "no MCP server found" }, in the
\* else-branch of the analysis error
NoServerFound(answer) == ~answer.err /\ Len(answer.configs) = 0

\* from the zero-config check to the SaveRepo call; analysed is the RepoInfo
\* after the analysis branch, backfill says whether the backfill is called
AfterAnalysis(repo, analysed, proposed, list, backfill, answer, scrape) ==
    IF NoServerFound(answer)
    THEN Outcome(FALSE, repo, proposed, answer, list, "skipped")
    ELSE IF ReturnsScrapeError(backfill, scrape)
    THEN Outcome(FALSE, repo, proposed, answer, list,
                 BackfillStatus(backfill, scrape))
    ELSE Outcome(TRUE, DefaultTools(WithTools(analysed, backfill, scrape)),
                 proposed, answer, list, BackfillStatus(backfill, scrape))

\* the analysis with the accepted-vs-proposed decision and the marked list
Analysed(repo, proposed, list, tools, force, answer, scrape, md) ==
    AfterAnalysis(repo,
                  IF answer.err THEN repo
                  ELSE WithAnalysis(repo, proposed, list, answer, md),
                  proposed, list, RunsBackfill(list, tools, force),
                  answer, scrape)

\* From the analysis to the SaveRepo call, shared by both versions:
\*   repo      the RepoInfo being built,
\*   manifest  the manifest the accepted-vs-proposed decision looks at,
\*   tools     the tool definitions the backfill condition looks at,
\*   md        the metadata written when the analysis succeeded.
Analyse(repo, manifest, tools, force, answer, scrape, md) ==
    Analysed(repo, Proposed(manifest, force),
             IF answer.err THEN <<>> ELSE MarkPreferred(answer.configs),
             tools, force, answer, scrape, md)

\* utils.UpdateRepo up to its SaveRepo call
UpdateRepoAnalyse(repo, force, answer, scrape) ==
    Analyse(repo, repo.manifest, repo.tools, force, answer, scrape,
            UpdateRepoMetadata(repo, answer))

\* what an operation reports about itself (the shape of the variable last)
NoOp ==
    [op |-> "none", fullName |-> <<>>, id |-> 0, force |-> FALSE,
     readme |-> <<>>, res |-> "ok", rejected |-> FALSE, oracle |-> FALSE,
     oracleErr |-> FALSE, list |-> <<>>, category |-> <<>>,
     backfill |-> "skipped", execs |-> 0, proposed |-> FALSE,
     pending |-> FALSE]

\* an ingestion that returns before SaveRepo, or reaches it
Step(st, info, save, repo) == [st |-> st, info |-> info, save |-> save, repo |-> repo]

\* the report of an analysis
AnalysisInfo(info, a, answer) ==
    [info EXCEPT
        !.oracle = TRUE, !.oracleErr = answer.err,
        !.list = a.list,
        !.category = answer.category, !.backfill = a.backfill,
        !.proposed = a.proposed,
        !.res = IF a.save THEN "ok" ELSE "err"]

\* what a call reports when it starts
Info(op, fullName, id, force, readme) ==
    [NoOp EXCEPT !.op = op, !.fullName = fullName, !.id = id,
                 !.force = force, !.readme = readme]

\* a call that went through the analysis a
StepOfAnalysis(st, info, a, answer) ==
    Step(st, AnalysisInfo(info, a, answer), a.save, a.repo)

\* AddRepo of pkg/server/collect.go after the fetches and the lookup
AddRepoFrom(st, info, repoInfo, repoFromDB, fetchOK, force, answer, scrape) ==
    IF ~fetchOK THEN Step(st, [info EXCEPT !.res = "err"], FALSE, repoInfo)
    ELSE IF ~HasLaunchKeyword(repoInfo.readme)
    THEN Step(st, [info EXCEPT !.res = "err", !.rejected = TRUE], FALSE, repoInfo)
    ELSE IF ~repoFromDB.err /\ repoFromDB.readme = repoInfo.readme /\ ~force
    THEN Step(st, info, FALSE, repoInfo)
    ELSE StepOfAnalysis(st, info,
                        Analyse(repoInfo, repoFromDB.manifest, repoFromDB.tools,
                                force, answer, scrape,
                                InlineMetadata(repoInfo, answer)),
                        answer)

\* AddRepo of pkg/server/collect.go up to its SaveRepo call
AddRepoPrepare(st, path, readme, avatar, fetchOK, force, answer, scrape) ==
    AddRepoFrom(st, Info("AddRepo", DeriveFullName(path), 0, force, readme),
                NewRepoInfo(path, readme, avatar),
                ScanRepoFromDB(st, DeriveFullName(path)),
                fetchOK, force, answer, scrape)

\* UPDATE repositories SET icon = $1 WHERE full_name = $2
UpdateIcon(st, fullName, avatar) ==
    [i \in DOMAIN st |->
        IF st[i].fullName = fullName THEN [st[i] EXCEPT !.icon = avatar] ELSE st[i]]

\* repoInfo.Metadata = repoFromDB.Metadata
WithStoredMetadata(repoInfo, repoFromDB) ==
    [repoInfo EXCEPT !.metadata = repoFromDB.metadata]

\* AddRepo of the refactored collect.go after the fetches and the lookup
AddRepoViaUpdateRepoFrom(st, info, repoInfo, repoFromDB, fetchOK, force, answer, scrape) ==
    IF ~fetchOK THEN Step(st, [info EXCEPT !.res = "err"], FALSE, repoInfo)
    ELSE IF ~HasLaunchKeyword(repoInfo.readme)
    THEN Step(st, [info EXCEPT !.res = "err", !.rejected = TRUE], FALSE, repoInfo)
    ELSE IF ~repoFromDB.err /\ repoFromDB.readme = repoInfo.readme /\ ~force
    THEN IF repoFromDB.icon = ""
         THEN Step(UpdateIcon(st, repoInfo.fullName, repoInfo.icon),
                   [info EXCEPT !.execs = 1], FALSE, repoInfo)
         ELSE Step(st, info, FALSE, repoInfo)
    ELSE StepOfAnalysis(st, info,
                        UpdateRepoAnalyse(WithStoredMetadata(repoInfo, repoFromDB),
                                          force, answer, scrape),
                        answer)

\* AddRepo of the refactored collect.go (it delegates to utils.UpdateRepo)
\* up to the SaveRepo call
AddRepoViaUpdateRepoPrepare(st, path, readme, avatar, fetchOK, force, answer, scrape) ==
    AddRepoViaUpdateRepoFrom(
        st, Info("AddRepoViaUpdateRepo", DeriveFullName(path), 0, force, readme),
        NewRepoInfo(path, readme, avatar),
        ScanRepoFromDB(st, DeriveFullName(path)),
        fetchOK, force, answer, scrape)

\* the result of the SaveRepo call s
Saved(p, s) ==
    [p EXCEPT !.st = s.st,
              !.info.execs = @ + 1,
              !.info.res = IF s.err THEN "err" ELSE "ok"]

\* the SaveRepo call that ends an ingestion which reached it
Finish(p) ==
    IF ~p.save THEN p ELSE Saved(p, SaveRepo(p.st, p.repo, p.info.proposed))

\* generateConfigForSpecificRepoHandler: the RepoInfo it scans (the icon is
\* not selected)
ScanRepo(row) ==
    [fullName |-> row.fullName,
     path |-> row.path,
     url |-> row.url,
     description |-> row.description,
     displayName |-> row.displayName,
     stars |-> row.stars,
     language |-> row.language,
     readme |-> row.readme,
     manifest |-> Coalesce(row.manifest, EmptyText),
     proposed |-> Coalesce(row.proposed, Placeholder),
     icon |-> "",
     metadata |-> row.metadata,
     tools |-> Coalesce(row.tools, Placeholder)]

\* generateConfigForSpecificRepoHandler: the call of utils.UpdateRepo
GenerateConfigPrepare(st, id, force, answer, scrape) ==
    StepOfAnalysis(st, Info("generate", st[id].fullName, id, force, st[id].readme),
                   UpdateRepoAnalyse(ScanRepo(st[id]), force, answer, scrape),
                   answer)

ApproveKeepingProposal(st, id) ==
    [i \in DOMAIN st |->
        IF st[i].id = id THEN [st[i] EXCEPT !.manifest = st[i].proposed] ELSE st[i]]

\* approveRepoHandler
ApproveRows(st, id) ==
    [i \in DOMAIN st |->
        IF st[i].id = id
        THEN [st[i] EXCEPT !.manifest = st[i].proposed, !.proposed = SqlNull]
        ELSE st[i]]

\* updateRepoHandler
SetManifest(st, id, body) ==
    [i \in DOMAIN st |->
        IF st[i].id = id THEN [st[i] EXCEPT !.manifest = body] ELSE st[i]]

\* updateRepoMetadataHandler
SetMetadata(st, id, body) ==
    [i \in DOMAIN st |->
        IF st[i].id = id THEN [st[i] EXCEPT !.metadata = body] ELSE st[i]]

----------------------------------------------------------------------------
(* Spec: the operations, each as one atomic step *)

PureIdle ==
    /\ configs = <<>> /\ marked = <<>>
    /\ allRepos = <<>> /\ uniqueRepos = <<>>
    /\ phase = "none"

Init ==
    /\ store = <<>>
    /\ last = NoOp
    /\ nops = 0
    /\ runs = <<>>
    /\ PureIdle

Others == <<runs, configs, marked, allRepos, uniqueRepos, phase>>

Perform(p) ==
    /\ nops' = nops + 1
    /\ store' = p.st
    /\ last' = p.info
    /\ UNCHANGED Others

\* The oracle and the backfill answer only a call that reaches them: a call
\* that does not is paired with the one answer it ignores.
Settle(p, answer, scrape) ==
    /\ ~p.info.oracle => answer = OracleError
    /\ p.info.backfill = "skipped" => scrape = ScrapeError
    /\ Perform(Finish(p))

AddRepo ==
    /\ nops < MaxOps
    /\ \E path \in Paths, readme \in Readmes, avatar \in Avatars,
          fetchOK \in BOOLEAN, force \in BOOLEAN,
          answer \in OracleAnswers, scrape \in ScrapeAnswers :
          Settle(AddRepoPrepare(store, path, readme, avatar, fetchOK, force,
                                answer, scrape),
                 answer, scrape)

AddRepoViaUpdateRepo ==
    /\ nops < MaxOps
    /\ \E path \in Paths, readme \in Readmes, avatar \in Avatars,
          fetchOK \in BOOLEAN, force \in BOOLEAN,
          answer \in OracleAnswers, scrape \in ScrapeAnswers :
          Settle(AddRepoViaUpdateRepoPrepare(store, path, readme, avatar, fetchOK,
                                             force, answer, scrape),
                 answer, scrape)

generateConfigForSpecificRepoHandler ==
    /\ nops < MaxOps
    /\ \E id \in DOMAIN store, force \in BOOLEAN,
          answer \in OracleAnswers, scrape \in ScrapeAnswers :
          Settle(GenerateConfigPrepare(store, id, force, answer, scrape),
                 answer, scrape)

approveRepoHandler ==
    /\ nops < MaxOps
    /\ \E id \in DOMAIN store :
        Perform(Step(ApproveRows(store, id),
                     [NoOp EXCEPT !.op = "approve", !.id = id, !.execs = 1,
                                  !.fullName = store[id].fullName,
                                  !.pending = (store[id].proposed.k = "list")],
                     FALSE, <<>>))

updateRepoHandler ==
    /\ nops < MaxOps
    /\ \E id \in DOMAIN store, body \in ManifestBodies :
        Perform(Step(SetManifest(store, id, body),
                     [NoOp EXCEPT !.op = "putManifest", !.id = id, !.execs = 1],
                     FALSE, <<>>))

updateRepoMetadataHandler ==
    /\ nops < MaxOps
    /\ \E id \in DOMAIN store, body \in MetadataBodies :
        Perform(Step(SetMetadata(store, id, body),
                     [NoOp EXCEPT !.op = "putMetadata", !.id = id, !.execs = 1],
                     FALSE, <<>>))

Next ==
    \/ AddRepo
    \/ AddRepoViaUpdateRepo
    \/ generateConfigForSpecificRepoHandler
    \/ approveRepoHandler
    \/ updateRepoHandler
    \/ updateRepoMetadataHandler

Spec == Init /\ [][Next]_vars

----------------------------------------------------------------------------
(* SpecPref: MarkPreferred applied to every config list up to MaxConfigs *)

Commands == {"npx", "uv", "uvx", "docker", "node", ""}

ConfigEntries == {Cfg(cmd, pref) : cmd \in Commands, pref \in BOOLEAN}

ConfigLists == UNION {[1..n -> ConfigEntries] : n \in 0..MaxConfigs}

InitPref ==
    /\ configs \in ConfigLists
    /\ marked = <<>>
    /\ phase = "input"
    /\ store = <<>> /\ last = NoOp /\ nops = 0 /\ runs = <<>>
    /\ allRepos = <<>> /\ uniqueRepos = <<>>

CallMarkPreferred ==
    /\ phase = "input"
    /\ marked' = MarkPreferred(configs)
    /\ phase' = "marked"
    /\ UNCHANGED <<store, last, nops, runs, configs, allRepos, uniqueRepos>>

NextPref == CallMarkPreferred

SpecPref == InitPref /\ [][NextPref]_vars

----------------------------------------------------------------------------
(* SpecDedup: the deduplication of searchReposByReadme *)

\* repository full names and README paths, character by character
HitFullNames == {<<"o", "/", "r">>, <<"o", "/", "r", "b">>}
HitPaths == {<<"R">>, <<"b", "/", "R">>, <<"b", ":", "R">>}

\* a code-search result; query is the search that returned it
CodeResults ==
    {[fullName |-> f, path |-> q, query |-> s] :
        f \in HitFullNames, q \in HitPaths, s \in {"batch", "global"}}

ResultLists == UNION {[1..n -> CodeResults] : n \in 0..MaxResults}

KeyFullNameOnly(repo) == repo.fullName

\* key := *repo.Repository.FullName + ":" + *repo.Path
Key(repo) == repo.fullName \o <<":">> \o repo.path

RECURSIVE DedupFrom(_, _, _, _)
DedupFrom(all, i, seen, unique) ==
    IF i > Len(all) THEN unique
    ELSE LET key == Key(all[i])
         IN IF key \in seen THEN DedupFrom(all, i + 1, seen, unique)
            ELSE DedupFrom(all, i + 1, seen \cup {key}, Append(unique, all[i]))

\* a run that ingests whatever the searches returned
NoDeduplication(all) == all

Deduplicate(all) == DedupFrom(all, 1, {}, <<>>)

InitDedup ==
    /\ allRepos \in ResultLists
    /\ uniqueRepos = <<>>
    /\ phase = "collected"
    /\ store = <<>> /\ last = NoOp /\ nops = 0 /\ runs = <<>>
    /\ configs = <<>> /\ marked = <<>>

DeduplicateResults ==
    /\ phase = "collected"
    /\ uniqueRepos' = Deduplicate(allRepos)
    /\ phase' = "deduplicated"
    /\ UNCHANGED <<store, last, nops, runs, configs, marked, allRepos>>

NextDedup == DeduplicateResults

SpecDedup == InitDedup /\ [][NextDedup]_vars

----------------------------------------------------------------------------
(* SpecRace: two overlapping ingestion runs (a scheduled run and a manual   *)
(* re-trigger).  Nothing excludes them from each other, so an AddRepo call  *)
(* of one run interleaves with the other's at every access to the table:   *)
(* the lookup and analysis, SaveRepo's existence check, SaveRepo's write.   *)

Runs == {1, 2}

RaceAnswers ==
    {Answer(<<Cfg("", FALSE)>>, <<"Go">>),
     Answer(<<Cfg("docker", FALSE), Cfg("npx", FALSE)>>, <<"Go">>)}

RaceScrapes == {[err |-> FALSE, tools |-> Marshal(<<"tool">>)]}

RunIdle ==
    [pc |-> "idle", started |-> 0, repo |-> NewRepoInfo(<<"README.md">>, <<>>, ""),
     force |-> FALSE, proposed |-> FALSE, count |-> 0, res |-> "none"]

InitRace ==
    /\ store = <<>>
    /\ last = NoOp
    /\ nops = 0
    /\ runs = [r \in Runs |-> RunIdle]
    /\ PureIdle

\* the run's locals when AddRepo reaches SaveRepo or returns before it
RunAfterAddRepo(run, p) ==
    [pc |-> IF p.save THEN "count" ELSE "idle",
     started |-> run.started + 1,
     repo |-> p.repo,
     force |-> p.info.force,
     proposed |-> p.info.proposed,
     count |-> 0,
     res |-> IF p.save THEN "saving" ELSE p.info.res]

RunStep(r, p) ==
    /\ store' = p.st
    /\ runs' = [runs EXCEPT ![r] = RunAfterAddRepo(runs[r], p)]

\* AddRepo up to the SaveRepo call
RunAddRepo(r) ==
    /\ runs[r].pc = "idle"
    /\ runs[r].started < MaxRaceOps
    /\ \E path \in Paths, readme \in Readmes, avatar \in Avatars, force \in BOOLEAN,
          answer \in RaceAnswers, scrape \in RaceScrapes :
          RunStep(r, AddRepoPrepare(store, path, readme, avatar, TRUE, force,
                                    answer, scrape))
    /\ UNCHANGED <<last, nops, configs, marked, allRepos, uniqueRepos, phase>>

\* SaveRepo: SELECT COUNT(*)
RunSaveRepoCount(r) ==
    /\ runs[r].pc = "count"
    /\ runs' = [runs EXCEPT ![r].pc = "exec",
                            ![r].count = CountRows(store, runs[r].repo.fullName)]
    /\ UNCHANGED <<store, last, nops, configs, marked, allRepos, uniqueRepos, phase>>

\* the run's result of the write s
RunWrite(r, s) ==
    /\ store' = s.st
    /\ runs' = [runs EXCEPT ![r].pc = "idle",
                            ![r].res = IF s.err THEN "err" ELSE "ok"]

\* SaveRepo: the UPDATE or the INSERT chosen by the count
RunSaveRepoExec(r) ==
    /\ runs[r].pc = "exec"
    /\ RunWrite(r, SaveRepoExec(store, runs[r].repo, runs[r].proposed, runs[r].count))
    /\ UNCHANGED <<last, nops, configs, marked, allRepos, uniqueRepos, phase>>

NextRace ==
    \E r \in Runs :
        \/ RunAddRepo(r)
        \/ RunSaveRepoCount(r)
        \/ RunSaveRepoExec(r)

SpecRace == InitRace /\ [][NextRace]_vars

----------------------------------------------------------------------------
(* SpecRun: one run of collectData, from the two search loops through the   *)
(* deduplication and the per-candidate loop to the pass over the stored     *)
(* records that the refactored searchReposByReadme makes when force is set. *)
(* phase is the run's position; runs[1] holds the run's locals.             *)

MaxRateLimits == 1   \* rate-limit errors the search service answers per run
MaxPages == 2        \* pages the global search has

BatchSize == 15
DefaultLimit == 4000

\* limit, _ := strconv.Atoi(os.Getenv("LIMIT")); if limit == 0 { limit = 4000 }
Limit(env) == IF env = 0 THEN DefaultLimit ELSE env

\* values of LIMIT (0: unset or not a number) and of len(repoLinks)
LimitSettings == {0, 1, 2}
LinkCounts == {0, BatchSize + 1}

\* the code-search hits of the run: README files of the one repository
Hit(path) == [fullName |-> <<"o", "/", "r">>, path |-> path, query |-> "run"]

\* what one Search.Code call can answer: a rate-limit error, another error,
\* or a page of results
SearchResults ==
    {<<>>, <<Hit(<<"README.md">>)>>,
     <<Hit(<<"sub", "README.md">>), Hit(<<"README.md">>)>>}

SearchAnswers ==
    {[kind |-> "rate", results |-> <<>>], [kind |-> "error", results |-> <<>>]}
    \cup {[kind |-> "ok", results |-> rs] : rs \in SearchResults}

\* resp.NextPage: the number of the page after this one, 0 after the last
NextPage(page, more) ==
    IF ~more THEN 0 ELSE IF page = 0 THEN 2 ELSE page + 1

\* the page number a request with opts.Page = page asks for
PageNumber(page) == IF page = 0 THEN 1 ELSE page

\* a global loop without the test of the limit
GlobalWhateverCollected(all, limit) == "global"

\* the condition of the fan-out loop, after which the global loop starts
\* with its own test of the limit
GlobalOrDedup(all, limit) ==
    IF Len(all) >= limit THEN "dedup" ELSE "global"

FanOutOrGlobal(i, links, all, limit) ==
    IF i < links THEN "fanout" ELSE GlobalOrDedup(all, limit)

\* what the oracle and the backfill answer during a run
RunAnswers ==
    {OracleError,
     Answer(<<>>, <<"Go">>),
     Answer(<<Cfg("docker", FALSE), Cfg("npx", FALSE)>>, <<"Go">>)}

RunScrapes == {ScrapeError, [err |-> FALSE, tools |-> Marshal(<<"tool">>)]}

RunReadmes == {<<"install", "npx">>}

\* the table a run can find: empty, or holding the records that two earlier
\* ingestions stored
StoredBefore(path, st) ==
    Finish(AddRepoPrepare(st, path, <<"run", "docker", "uv">>, "avatar", TRUE, FALSE,
                          Answer(<<Cfg("docker", FALSE), Cfg("npx", FALSE)>>, <<"Go">>),
                          [err |-> FALSE, tools |-> Marshal(<<"tool">>)])).st

RunTables ==
    {<<>>, StoredBefore(<<"sub", "README.md">>, StoredBefore(<<"README.md">>, <<>>))}

RunLocals(version, force, env, links) ==
    [version |-> version, force |-> force, env |-> env, limit |-> Limit(env),
     links |-> links,
     i |-> 0, page |-> 0, rateLimits |-> 0, log |-> <<>>, collected |-> <<>>,
     cursor |-> 1, attempted |-> <<>>, added |-> {}, row |-> 1, updated |-> <<>>]

InitRun ==
    /\ store \in RunTables
    /\ last = NoOp
    /\ nops = 0
    /\ \E version \in {"inline", "refactored"}, force \in BOOLEAN,
          env \in LimitSettings, links \in LinkCounts :
          /\ runs = <<RunLocals(version, force, env, links)>>
          /\ phase = FanOutOrGlobal(0, links, <<>>, Limit(env))
    /\ allRepos = <<>> /\ uniqueRepos = <<>>
    /\ configs = <<>> /\ marked = <<>>

\* a search call and its answer, as the run's log keeps it
Query(loop, index, answer) == [loop |-> loop, index |-> index, kind |-> answer.kind]

\* the locals after a search call
Searched(run, loop, index, answer) ==
    [run EXCEPT !.log = Append(@, Query(loop, index, answer)),
                !.rateLimits = IF answer.kind = "rate" THEN @ + 1 ELSE @]

\* the fan-out loop after one query: both error branches continue, which
\* runs the loop's post statement i += batchSize; a result is appended and
\* the limit tested, and the break leaves i as it is
FanOutStep(run, all, answer) ==
    /\ runs' = <<[Searched(run, "fanout", run.i, answer) EXCEPT
                    !.i = IF answer.kind = "ok" /\ Len(all) >= run.limit
                          THEN @ ELSE @ + BatchSize]>>
    /\ allRepos' = all
    /\ phase' = IF answer.kind = "ok" /\ Len(all) >= run.limit
                THEN GlobalOrDedup(all, run.limit)
                ELSE FanOutOrGlobal(run.i + BatchSize, run.links, all, run.limit)

\* one iteration of the fan-out loop
FanOutSearch ==
    /\ phase = "fanout"
    /\ \E answer \in SearchAnswers :
          /\ answer.kind = "rate" => runs[1].rateLimits < MaxRateLimits
          /\ FanOutStep(runs[1], allRepos \o answer.results, answer)
    /\ UNCHANGED <<store, last, nops, configs, marked, uniqueRepos>>

\* the global loop after one query: a rate-limit error continues with the
\* same opts, another error returns from searchReposByReadme, a result is
\* appended and the loop ends with the last page
GlobalStep(run, all, answer, next) ==
    /\ runs' = <<[Searched(run, "global", PageNumber(run.page), answer) EXCEPT
                    !.page = IF answer.kind = "ok" /\ next # 0 THEN next ELSE @]>>
    /\ allRepos' = all
    /\ phase' = IF answer.kind = "rate" THEN "global"
                ELSE IF answer.kind = "error" THEN "returned"
                ELSE IF next = 0 THEN "dedup"
                ELSE GlobalOrDedup(all, run.limit)

\* one iteration of the global loop that passed the test of the limit
GlobalSearch ==
    /\ phase = "global"
    /\ \E answer \in SearchAnswers, more \in BOOLEAN :
          /\ answer.kind = "rate" => runs[1].rateLimits < MaxRateLimits
          /\ answer.kind # "ok" => ~more
          /\ more => PageNumber(runs[1].page) < MaxPages
          /\ GlobalStep(runs[1], allRepos \o answer.results, answer,
                        NextPage(runs[1].page, more))
    /\ UNCHANGED <<store, last, nops, configs, marked, uniqueRepos>>

\* after the per-candidate loop: the pass over the stored records, which only
\* the refactored version has and only a forced run makes
ForcePassOrDone(run, st) ==
    IF run.version = "refactored" /\ run.force /\ Len(st) > 0 THEN "force" ELSE "done"

IngestOrAfter(run, unique, st) ==
    IF run.cursor <= Len(unique) THEN "ingest" ELSE ForcePassOrDone(run, st)

\* the deduplication; allRepos = uniqueRepos (collected keeps what the
\* searches had returned, for the properties)
DeduplicateRun ==
    /\ phase = "dedup"
    /\ uniqueRepos' = Deduplicate(allRepos)
    /\ allRepos' = Deduplicate(allRepos)
    /\ runs' = <<[runs[1] EXCEPT !.collected = allRepos]>>
    /\ phase' = IngestOrAfter(runs[1], Deduplicate(allRepos), store)
    /\ UNCHANGED <<store, last, nops, configs, marked>>

\* the name AddRepo reports as added: the refactored version returns
\* UpdateRepo's name, and "" from its unchanged-README return
AddedName(info) == IF info.oracle THEN info.fullName ELSE <<>>

\* the locals after the AddRepo call of the per-candidate loop: an error is
\* logged and the loop continues
AfterAddRepo(run, candidate, info) ==
    [run EXCEPT !.cursor = @ + 1,
                !.attempted = Append(@, [path |-> candidate.path, res |-> info.res]),
                !.added = IF info.res = "ok" THEN @ \cup {AddedName(info)} ELSE @]

Ingested(q, candidate) ==
    /\ store' = q.st
    /\ last' = q.info
    /\ runs' = <<AfterAddRepo(runs[1], candidate, q.info)>>
    /\ phase' = IngestOrAfter(AfterAddRepo(runs[1], candidate, q.info),
                              uniqueRepos, q.st)

RunSettle(p, candidate, answer, scrape) ==
    /\ ~p.info.oracle => answer = OracleError
    /\ p.info.backfill = "skipped" => scrape = ScrapeError
    /\ Ingested(Finish(p), candidate)

\* the AddRepo of the run's version
RunAddRepoPrepare(version, st, path, readme, fetchOK, force, answer, scrape) ==
    IF version = "inline"
    THEN AddRepoPrepare(st, path, readme, "avatar", fetchOK, force, answer, scrape)
    ELSE AddRepoViaUpdateRepoPrepare(st, path, readme, "avatar", fetchOK, force,
                                     answer, scrape)

\* one iteration of the per-candidate loop
IngestCandidate ==
    /\ phase = "ingest"
    /\ \E readme \in RunReadmes, fetchOK \in BOOLEAN,
          answer \in RunAnswers, scrape \in RunScrapes :
          RunSettle(RunAddRepoPrepare(runs[1].version, store,
                                      uniqueRepos[runs[1].cursor].path, readme,
                                      fetchOK, runs[1].force, answer, scrape),
                    uniqueRepos[runs[1].cursor], answer, scrape)
    /\ UNCHANGED <<nops, configs, marked, allRepos, uniqueRepos>>

\* the RepoInfo the forced pass scans: the first query selects no metadata,
\* and the second scans metadata into a local that UpdateRepo never gets
ScanStoredRepo(row) ==
    [ScanRepo(row) EXCEPT !.icon = row.icon, !.metadata = NoMetadata]

\* utils.UpdateRepo(ctx, repo, force, ...) on a stored record
UpdateStoredPrepare(st, row, force, answer, scrape) ==
    StepOfAnalysis(st, Info("UpdateRepo", row.fullName, row.id, force, row.readme),
                   UpdateRepoAnalyse(ScanStoredRepo(row), force, answer, scrape),
                   answer)

\* the locals after one row of the forced pass
AfterRow(run, row, res) ==
    [run EXCEPT !.row = @ + 1,
                !.updated = Append(@, [fullName |-> row.fullName, res |-> res])]

RowOrDone(run, st) == IF run.row <= Len(st) THEN "force" ELSE "done"

\* a row of the forced pass that is not analysed: log.Fatalf when the Scan
\* fails, nothing when this run added the record
RowSkipped(run, row) ==
    /\ runs' = <<AfterRow(run, row, IF ScanOK(row.manifest) THEN "added" ELSE "err")>>
    /\ phase' = IF ScanOK(row.manifest) THEN RowOrDone(AfterRow(run, row, "added"), store)
                ELSE "fatal"
    /\ UNCHANGED <<store, last>>

\* a row of the forced pass after its UpdateRepo call: log.Fatalf on an error
RowUpdated(run, row, q) ==
    /\ store' = q.st
    /\ last' = q.info
    /\ runs' = <<AfterRow(run, row, q.info.res)>>
    /\ phase' = IF q.info.res = "ok" THEN RowOrDone(AfterRow(run, row, "ok"), q.st)
                ELSE "fatal"

RowSettle(p, run, row, answer, scrape) ==
    /\ p.info.backfill = "skipped" => scrape = ScrapeError
    /\ RowUpdated(run, row, Finish(p))

\* one row of the pass over the stored records
ForcePassRow ==
    /\ phase = "force"
    /\ IF ~ScanOK(store[runs[1].row].manifest)
          \/ store[runs[1].row].fullName \in runs[1].added
       THEN RowSkipped(runs[1], store[runs[1].row])
       ELSE \E answer \in RunAnswers, scrape \in RunScrapes :
               RowSettle(UpdateStoredPrepare(store, store[runs[1].row],
                                             runs[1].force, answer, scrape),
                         runs[1], store[runs[1].row], answer, scrape)
    /\ UNCHANGED <<nops, configs, marked, allRepos, uniqueRepos>>

NextRun ==
    \/ FanOutSearch
    \/ GlobalSearch
    \/ DeduplicateRun
    \/ IngestCandidate
    \/ ForcePassRow

SpecRun == InitRun /\ [][NextRun]_vars

----------------------------------------------------------------------------
(* SpecScrape: one call of ScrapeToolDefinitions, the tool-definition       *)
(* backfill.  phase is the call's position in its for loop, allRepos its    *)
(* allResults, runs[1] its other locals.  The code counts no retries;       *)
(* restarts is kept for the properties and stops counting at its bound.     *)

MaxRestartsSeen == 2   \* restarts of the loop that are counted

\* source files the two code searches can return
ToolFiles == {<<"src", "a.ts">>, <<"sub", "b.py">>}

ToolFile(path) == [fullName |-> <<"o", "/", "r">>, path |-> path, query |-> "tool"]

ToolSearchResults ==
    {<<>>, <<ToolFile(<<"src", "a.ts">>)>>,
     <<ToolFile(<<"sub", "b.py">>), ToolFile(<<"src", "a.ts">>)>>}

\* answers of a code search other than a rate-limit error
ToolSearchAnswers ==
    {[kind |-> "error", results |-> <<>>]}
    \cup {[kind |-> "ok", results |-> rs] : rs \in ToolSearchResults}

\* answers of the oracle: an error, a text that is no ToolResponse, or a
\* ToolResponse whose tools are absent (nil), empty, or one tool
ToolOracleAnswers ==
    {[kind |-> "error", tools |-> JsonNull], [kind |-> "badjson", tools |-> JsonNull]}
    \cup {[kind |-> "ok", tools |-> t] :
             t \in {JsonNull, Marshal(<<>>), Marshal(<<"tool">>)}}

\* a call that gives up at the first rate-limit error
ReturnOnEveryError(kind, next) == IF kind = "ok" THEN next ELSE "returned"

\* after a search call: a rate-limit error sleeps and continues, which starts
\* the for loop again; another error returns; a result goes on
AfterToolSearch(kind, next) ==
    IF kind = "rate" THEN "query1" ELSE IF kind = "error" THEN "returned" ELSE next

\* strings.HasPrefix(*codeResult.Path, strings.TrimSuffix(repo.Path, "README.md"))
HasDirPrefix(file, path) ==
    /\ Len(file) >= Len(DirParts(path))
    /\ SubSeq(file, 1, Len(DirParts(path))) = DirParts(path)

\* the files of resultSet that the content loop fetches
FilesToFetch(all, path) ==
    {all[i].path : i \in {j \in DOMAIN all : HasDirPrefix(all[j].path, path)}}

FetchOrOracle(files) == IF files = {} THEN "oracle" ELSE "fetch"

NoResult == [done |-> FALSE, err |-> FALSE, tools |-> EmptyText]

ScrapeLocals(path) ==
    [path |-> path, restarts |-> 0, files |-> {}, data |-> <<>>, result |-> NoResult]

InitScrape ==
    /\ \E path \in Paths : runs = <<ScrapeLocals(path)>>
    /\ phase = "query1"
    /\ allRepos = <<>> /\ uniqueRepos = <<>>
    /\ store = <<>> /\ last = NoOp /\ nops = 0
    /\ configs = <<>> /\ marked = <<>>

CountRestart(n) == IF n < MaxRestartsSeen THEN n + 1 ELSE n

\* the position after the search call of this position
NextAfterSearch(pos, all, path) ==
    IF pos = "query1" THEN "query2" ELSE FetchOrOracle(FilesToFetch(all, path))

\* the locals and the position after a search call answered with kind
ToolSearched(run, kind, all, to) ==
    /\ phase' = to
    /\ allRepos' = IF to = "query1" THEN <<>> ELSE all
    /\ runs' = <<[run EXCEPT
                    !.restarts = IF to = "query1" THEN CountRestart(@) ELSE @,
                    !.files = IF to = "fetch" THEN FilesToFetch(all, run.path) ELSE {},
                    !.result = IF to = "returned"
                               THEN [done |-> TRUE, err |-> TRUE, tools |-> EmptyText]
                               ELSE @]>>

\* a search call that a rate-limit error answers
ScrapeRateLimited ==
    /\ phase \in {"query1", "query2"}
    /\ ToolSearched(runs[1], "rate", allRepos,
                    AfterToolSearch("rate", NextAfterSearch(phase, allRepos, runs[1].path)))
    /\ UNCHANGED <<store, last, nops, configs, marked, uniqueRepos>>

\* a search call that a result or another error answers
ScrapeSearch ==
    /\ phase \in {"query1", "query2"}
    /\ \E answer \in ToolSearchAnswers :
          ToolSearched(runs[1], answer.kind, allRepos \o answer.results,
                       AfterToolSearch(answer.kind,
                                       NextAfterSearch(phase, allRepos \o answer.results,
                                                       runs[1].path)))
    /\ UNCHANGED <<store, last, nops, configs, marked, uniqueRepos>>

\* the content loop: GetContents of one file of resultSet, in the order the
\* map iteration gives
ScrapeFetch ==
    /\ phase = "fetch"
    /\ \E file \in runs[1].files, ok \in BOOLEAN :
          /\ runs' = <<[runs[1] EXCEPT
                          !.files = @ \ {file},
                          !.data = IF ok THEN Append(@, file) ELSE @,
                          !.result = IF ok THEN @
                                     ELSE [done |-> TRUE, err |-> TRUE,
                                           tools |-> EmptyText]]>>
          /\ phase' = IF ~ok THEN "returned" ELSE FetchOrOracle(runs[1].files \ {file})
    /\ UNCHANGED <<store, last, nops, configs, marked, allRepos, uniqueRepos>>

\* the oracle call and json.Marshal(tools.Tools) into repo.ToolDefinitions
ScrapeOracle ==
    /\ phase = "oracle"
    /\ \E answer \in ToolOracleAnswers :
          runs' = <<[runs[1] EXCEPT
                       !.result = [done |-> TRUE, err |-> answer.kind # "ok",
                                   tools |-> IF answer.kind = "ok" THEN answer.tools
                                             ELSE EmptyText]]>>
    /\ phase' = "returned"
    /\ UNCHANGED <<store, last, nops, configs, marked, allRepos, uniqueRepos>>

NextScrape ==
    \/ ScrapeRateLimited
    \/ ScrapeSearch
    \/ ScrapeFetch
    \/ ScrapeOracle

SpecScrape == InitScrape /\ [][NextScrape]_vars

\* the call is scheduled until it returns, and the rate-limit errors of the
\* search service stop at some time
SpecScrapeFair ==
    /\ SpecScrape
    /\ WF_vars(NextScrape)
    /\ <>[][~ScrapeRateLimited]_vars

\* the call is scheduled until it returns, whatever the search service does
SpecScrapeStorm == SpecScrape /\ WF_vars(NextScrape)

----------------------------------------------------------------------------
(* Properties *)

IsIngest(op) == op = "AddRepo" \/ op = "AddRepoViaUpdateRepo"

IsReanalysis(op) == IsIngest(op) \/ op = "generate"

HasVerified(md) == SliceContains(ExistingCategories(md), "Verified")

\* a README with none of the four launch keywords
LacksKeywords(readme) ==
    \A w \in {"mcpServers", "npx", "docker", "uv"} :
        \A i \in DOMAIN readme : readme[i] # w

\* C1 (propose-not-overwrite): an ingestion with force=false of an existing
\* record whose accepted manifest is a config list, whose fetched README
\* differs from the stored one and whose extraction returns at least one
\* config, leaves the record's manifest unchanged and, when it persists,
\* stores the marked config list in proposedManifest.
C1_ProposeNotOverwrite ==
    [][LET i == FindRow(store, last'.fullName)
       IN (/\ IsIngest(last'.op)
           /\ ~last'.force
           /\ i # 0
           /\ store[i].manifest.k = "list"
           /\ store[i].readme # last'.readme
           /\ last'.oracle /\ ~last'.oracleErr
           /\ Len(last'.list) >= 1)
          => /\ store'[i].manifest = store[i].manifest
             /\ (last'.res = "ok" => store'[i].proposed = Marshal(last'.list))]_vars

\* C1 restricted to the inline AddRepo of pkg/server/collect.go
C1_InlineOnly ==
    [][LET i == FindRow(store, last'.fullName)
       IN (/\ last'.op = "AddRepo"
           /\ ~last'.force
           /\ i # 0
           /\ store[i].manifest.k = "list"
           /\ store[i].readme # last'.readme
           /\ last'.oracle /\ ~last'.oracleErr
           /\ Len(last'.list) >= 1)
          => /\ store'[i].manifest = store[i].manifest
             /\ (last'.res = "ok" => store'[i].proposed = Marshal(last'.list))]_vars

\* C2 (idempotence): an ingestion with force=false whose fetched README
\* equals the stored readmeContent of the existing record asks the oracle
\* nothing and writes nothing, except that it may fill an empty icon.
C2_Idempotence ==
    [][LET i == FindRow(store, last'.fullName)
       IN (/\ IsIngest(last'.op)
           /\ ~last'.force
           /\ i # 0
           /\ store[i].readme = last'.readme)
          => /\ ~last'.oracle
             /\ store' = [store EXCEPT
                            ![i].icon = IF @ = "" THEN store'[i].icon ELSE @]
             /\ last'.execs <= (IF store[i].icon = "" THEN 1 ELSE 0)]_vars

\* C2 for records whose manifest column is not NULL
C2_NonNullManifest ==
    [][LET i == FindRow(store, last'.fullName)
       IN (/\ IsIngest(last'.op)
           /\ ~last'.force
           /\ i # 0
           /\ store[i].manifest.k # "null"
           /\ store[i].readme = last'.readme)
          => /\ ~last'.oracle
             /\ store' = [store EXCEPT
                            ![i].icon = IF @ = "" THEN store'[i].icon ELSE @]
             /\ last'.execs <= (IF store[i].icon = "" THEN 1 ELSE 0)]_vars

\* C4 (Verified-tag survival): when a record's categories contain Verified,
\* a re-analysis that persists leaves categories containing Verified.
C4_VerifiedSurvives ==
    [][LET i == FindRow(store, last'.fullName)
       IN (/\ IsReanalysis(last'.op)
           /\ i # 0
           /\ HasVerified(store[i].metadata)
           /\ last'.oracle
           /\ last'.res = "ok")
          => HasVerified(store'[i].metadata)]_vars

\* C8 (rejection rule): an ingestion whose README has none of the keywords
\* returns an error before any oracle call and without touching the table,
\* whatever force is and whether or not the fullName is stored.
C8_RejectionRule ==
    [][(IsIngest(last'.op) /\ LacksKeywords(last'.readme))
          => /\ ~last'.oracle
             /\ last'.execs = 0
             /\ last'.res = "err"
             /\ store' = store]_vars

C8_Witness ==
    /\ IsIngest(last.op)
    /\ last.rejected
    /\ LacksKeywords(last.readme)
    /\ last.force
    /\ FindRow(store, last.fullName) # 0

\* C9 (approve): approving a record that holds a pending proposal P sets its
\* manifest to P, clears proposedManifest, and changes nothing else.
C9_Approve ==
    [][(last'.op = "approve" /\ store[last'.id].proposed.k = "list")
          => store' = [store EXCEPT
                         ![last'.id].manifest = store[last'.id].proposed,
                         ![last'.id].proposed = SqlNull]]_vars

C9_Witness ==
    /\ last.op = "approve"
    /\ last.pending
    /\ store[last.id].manifest.k = "list"
    /\ store[last.id].proposed = SqlNull

\* C10 (backfill atomicity): an ingestion whose backfill fails returns an
\* error and leaves the table untouched; every ingestion issues at most one
\* write, and a write only after the backfill succeeded or was skipped.
C10_BackfillAtomic ==
    [][IsIngest(last'.op)
          => /\ (last'.backfill = "failed"
                    => last'.res = "err" /\ last'.execs = 0 /\ store' = store)
             /\ last'.execs <= 1
             /\ (store' # store => last'.execs = 1)]_vars

C10_Witness ==
    /\ IsIngest(last.op)
    /\ last.backfill = "failed"
    /\ last.res = "err"
    /\ FindRow(store, last.fullName) # 0

\* C3 (uniqueness): whatever the interleaving of two runs, no two rows share
\* a fullName, and a fullName whose SaveRepo succeeded has exactly one row.
C3_Uniqueness ==
    /\ \A i, j \in DOMAIN store :
          store[i].fullName = store[j].fullName => i = j
    /\ \A r \in DOMAIN runs :
          runs[r].res = "ok" => CountRows(store, runs[r].repo.fullName) = 1

\* both runs passed SaveRepo's existence check before either inserted
C3_Witness ==
    /\ DOMAIN runs = Runs
    /\ \E r1, r2 \in Runs :
          /\ r1 # r2
          /\ runs[r1].repo.fullName = runs[r2].repo.fullName
          /\ runs[r1].count = 0 /\ runs[r2].count = 0
          /\ runs[r1].res = "ok" /\ runs[r2].res = "err"
          /\ CountRows(store, runs[r1].repo.fullName) = 1

PreferredSet(list) == {i \in DOMAIN list : list[i].preferred}

\* C5 (preferred uniqueness): after MarkPreferred at most one entry is
\* preferred, and if the list has an npx entry the preferred one is npx.
C5_PreferredUnique ==
    phase = "marked" =>
        /\ Cardinality(PreferredSet(marked)) <= 1
        /\ (\E i \in DOMAIN marked : marked[i].command = "npx")
              => \A i \in PreferredSet(marked) : marked[i].command = "npx"

\* the lowest index holding one of the commands, 0 when there is none
LowestWith(list, cmds) ==
    LET hits == {i \in DOMAIN list : list[i].command \in cmds}
    IN IF hits = {} THEN 0 ELSE CHOOSE i \in hits : \A j \in hits : i <= j

\* C6 (preferred priority): MarkPreferred sets preferred on the first npx
\* entry, else on the first uv/uvx entry, else on the first docker entry,
\* else on none; every other entry and every other field is left as it was.
C6_PreferredPriority ==
    phase = "marked" =>
        LET n == LowestWith(configs, {"npx"})
            u == LowestWith(configs, {"uv", "uvx"})
            d == LowestWith(configs, {"docker"})
            target == IF n # 0 THEN n ELSE IF u # 0 THEN u ELSE d
        IN /\ Len(marked) = Len(configs)
           /\ \A i \in DOMAIN configs :
                 /\ marked[i].command = configs[i].command
                 /\ marked[i].args = configs[i].args
                 /\ marked[i].url = configs[i].url
                 /\ marked[i].preferred = (configs[i].preferred \/ i = target)

\* a docker entry before a uvx entry before the npx entry that gets marked
C6_Witness ==
    /\ phase = "marked"
    /\ Len(configs) = 3
    /\ configs[1].command = "docker" /\ ~configs[1].preferred
    /\ configs[2].command = "uvx" /\ ~configs[2].preferred
    /\ configs[3].command = "npx" /\ ~configs[3].preferred
    /\ PreferredSet(marked) = {3}

PairOf(repo) == <<repo.fullName, repo.path>>

\* C7 (dedup correctness): the deduplicated list holds exactly one candidate
\* for each distinct (fullName, path) pair of the collected results, and
\* every candidate is one of the collected results.
C7_DedupCorrect ==
    phase = "deduplicated" =>
        /\ \A i \in DOMAIN allRepos :
              Cardinality({j \in DOMAIN uniqueRepos :
                              PairOf(uniqueRepos[j]) = PairOf(allRepos[i])}) = 1
        /\ \A j \in DOMAIN uniqueRepos :
              \E i \in DOMAIN allRepos : uniqueRepos[j] = allRepos[i]

\* a repeated pair amid another pair of the same repository
C7_Witness ==
    /\ phase = "deduplicated"
    /\ Len(allRepos) = 3
    /\ PairOf(allRepos[1]) = PairOf(allRepos[3])
    /\ allRepos[1].fullName = allRepos[2].fullName
    /\ allRepos[1].path # allRepos[2].path
    /\ Len(uniqueRepos) = 2

\* C11 (oracle failure): an ingestion whose extraction-oracle call fails
\* returns an error without calling the store write, and the table is left
\* as it was.
C11_OracleFailureAborts ==
    [][(IsIngest(last'.op) /\ last'.oracle /\ last'.oracleErr)
          => /\ last'.execs = 0
             /\ last'.res = "err"
             /\ store' = store]_vars

\* C11, the part the code keeps: after an oracle failure the write that
\* SaveRepo attempts is refused, so no ingestion changes the table
C11_TableUntouched ==
    [][(IsIngest(last'.op) /\ last'.oracle /\ last'.oracleErr)
          => store' = store /\ last'.res = "err"]_vars

\* C12 (zero configs): an ingestion whose extraction succeeds with an empty
\* config list returns an error and performs no store write; no record is
\* created and every stored record keeps every field.
C12_ZeroConfigs ==
    [][(/\ IsIngest(last'.op)
        /\ last'.oracle /\ ~last'.oracleErr
        /\ Len(last'.list) = 0)
          => /\ last'.res = "err"
             /\ last'.execs = 0
             /\ store' = store]_vars

\* zero configs for a new fullName and for a stored one, seen one after the
\* other: the second state below is an existing record's
C12_Witness ==
    /\ IsIngest(last.op)
    /\ last.oracle /\ ~last.oracleErr
    /\ Len(last.list) = 0
    /\ last.res = "err"
    /\ FindRow(store, last.fullName) # 0
    /\ store[FindRow(store, last.fullName)].readme # last.readme

\* the accepted manifest AddRepo's decision is about: none stored, or an
\* empty one (NULL, "" or the "{}" placeholder)
NoAcceptedManifest(st, fn) ==
    \/ FindRow(st, fn) = 0
    \/ st[FindRow(st, fn)].manifest.k \in {"null", "empty", "obj"}

\* C13 (target selection): an ingestion that stores an analysis writes the
\* config list into manifest exactly when no accepted manifest is stored or
\* force is true, and otherwise into proposedManifest, leaving manifest as it
\* was; and a forced ingestion never takes the unchanged-README return.
C13_TargetSelection ==
    [][IsIngest(last'.op)
          => LET i == FindRow(store, last'.fullName)
                 j == FindRow(store', last'.fullName)
                 direct == NoAcceptedManifest(store, last'.fullName) \/ last'.force
             IN /\ (/\ last'.oracle /\ ~last'.oracleErr
                    /\ Len(last'.list) >= 1 /\ last'.res = "ok")
                      => /\ j # 0
                         /\ IF direct
                            THEN store'[j].manifest = Marshal(last'.list)
                            ELSE /\ store'[j].proposed = Marshal(last'.list)
                                 /\ store'[j].manifest = store[i].manifest
                /\ (last'.force /\ last'.res = "ok") => last'.oracle]_vars

\* C13 restricted to the inline AddRepo of pkg/server/collect.go
C13_InlineOnly ==
    [][last'.op = "AddRepo"
          => LET i == FindRow(store, last'.fullName)
                 j == FindRow(store', last'.fullName)
                 direct == NoAcceptedManifest(store, last'.fullName) \/ last'.force
             IN /\ (/\ last'.oracle /\ ~last'.oracleErr
                    /\ Len(last'.list) >= 1 /\ last'.res = "ok")
                      => /\ j # 0
                         /\ IF direct
                            THEN store'[j].manifest = Marshal(last'.list)
                            ELSE /\ store'[j].proposed = Marshal(last'.list)
                                 /\ store'[j].manifest = store[i].manifest
                /\ (last'.force /\ last'.res = "ok") => last'.oracle]_vars

\* C14 (empty backfill result): when the backfill of an ingestion succeeds
\* without any tool, the ingestion is persisted and the stored
\* toolDefinitions is the empty list.
C14_EmptyBackfillIsEmptyList ==
    [][LET j == FindRow(store', last'.fullName)
       IN (/\ IsIngest(last'.op)
           /\ last'.backfill = "ok"
           /\ j # 0 => store'[j].tools.v = <<>>)
          => /\ last'.res = "ok"
             /\ j # 0
             /\ store'[j].tools = Marshal(<<>>)]_vars

\* C14, the part the code keeps: a backfill that succeeds without any tool is
\* no error and the ingestion is persisted, toolDefinitions being the JSON
\* text [] or null
C14_EmptyBackfillPersists ==
    [][LET j == FindRow(store', last'.fullName)
       IN (/\ IsIngest(last'.op)
           /\ last'.backfill = "ok"
           /\ j # 0 => store'[j].tools.v = <<>>)
          => /\ last'.res = "ok"
             /\ j # 0
             /\ store'[j].tools \in {Marshal(<<>>), JsonNull}]_vars

\* C15 (run survives candidate errors): an error while processing one record,
\* in the per-candidate loop or in the forced pass over the stored records,
\* never terminates the process, and a run that ends has attempted every
\* candidate and, in a forced pass, every stored record.
C15_RunSurvivesErrors ==
    /\ phase # "fatal"
    /\ phase = "done" => Len(runs[1].attempted) = Len(uniqueRepos)
    /\ (phase = "done" /\ runs[1].version = "refactored" /\ runs[1].force)
          => Len(runs[1].updated) = Len(store)

\* The per-candidate loop alone does what C15 says: an AddRepo error is logged
\* and the loop goes on to the next candidate.
C15_CandidateLoopContinues ==
    [][(phase = "ingest" /\ last'.res = "err")
          => /\ runs'[1].cursor = runs[1].cursor + 1
             /\ phase' = IngestOrAfter(runs'[1], uniqueRepos, store')]_vars

\* C16 (create once, never delete): no operation removes or renames a row;
\* a step adds at most one row, at the end of the table, and only for a
\* fullName the table did not hold, so that every later write to a fullName
\* is an update and the set of stored fullNames never shrinks.
C16_CreateOnceNeverDelete ==
    [][/\ Len(store') \in {Len(store), Len(store) + 1}
       /\ \A i \in DOMAIN store : /\ store'[i].fullName = store[i].fullName
                                  /\ store'[i].id = store[i].id
       /\ Len(store') = Len(store) + 1
             => \A i \in DOMAIN store :
                   store[i].fullName # store'[Len(store')].fullName]_vars

\* an ingestion has written, by SaveRepo, to the first of two stored records
C16_Witness ==
    /\ Len(store) = 2
    /\ IsIngest(last.op)
    /\ last.res = "ok" /\ last.execs = 1
    /\ last.fullName = store[1].fullName
    /\ store[1].readme = last.readme

\* C17 (categories key): a record that an ingestion or a re-run of the
\* extraction has written by SaveRepo has a metadata map with the key
\* categories; when the oracle answered, its value is the oracle's category
\* string, possibly with Verified added.
C17_CategoriesKey ==
    [][(IsReanalysis(last'.op) /\ last'.oracle /\ last'.res = "ok")
          => /\ FindRow(store', last'.fullName) # 0
             /\ store'[FindRow(store', last'.fullName)].metadata.hasCat
             /\ ~last'.oracleErr
                   => store'[FindRow(store', last'.fullName)].metadata.cats
                         \in {last'.category, Append(last'.category, "Verified")}]_vars

\* What does hold: a write that follows an answer of the oracle stores the
\* key categories with the oracle's category string, possibly with Verified.
C17_AnsweredHasCategories ==
    [][(IsReanalysis(last'.op) /\ last'.oracle /\ ~last'.oracleErr
           /\ last'.res = "ok")
          => /\ store'[FindRow(store', last'.fullName)].metadata.hasCat
             /\ store'[FindRow(store', last'.fullName)].metadata.cats
                   \in {last'.category, Append(last'.category, "Verified")}]_vars

\* the search call of this step, if the step is one
Asked(log, log2) == Len(log2) = Len(log) + 1

\* C18 (rate-limit retry): a search call that a rate-limit error answers is
\* followed by the same query: the run stays in its loop, at the same batch
\* and the same page, with what it had collected.
C18_RateLimitRetry ==
    [][(Asked(runs[1].log, runs'[1].log)
           /\ runs'[1].log[Len(runs'[1].log)].kind = "rate")
          => /\ phase' = phase
             /\ runs'[1].i = runs[1].i
             /\ runs'[1].page = runs[1].page
             /\ allRepos' = allRepos]_vars

\* The paged global loop does what C18 says.
C18_GlobalLoopRetries ==
    [][(phase = "global"
           /\ Asked(runs[1].log, runs'[1].log)
           /\ runs'[1].log[Len(runs'[1].log)].kind = "rate")
          => /\ phase' = "global"
             /\ runs'[1].page = runs[1].page
             /\ allRepos' = allRepos]_vars

\* C19 (non-rate-limit search error): a search call that an error other than
\* a rate limit answers drops nothing that was collected, and the run goes on
\* to the deduplication and the ingestion of what it had collected.
C19_SearchErrorSkipsOnly ==
    [][(Asked(runs[1].log, runs'[1].log)
           /\ runs'[1].log[Len(runs'[1].log)].kind = "error")
          => /\ allRepos' = allRepos
             /\ Len(allRepos) > 0 => phase' \in {"fanout", "global", "dedup"}]_vars

\* The fan-out loop does what C19 says: the batch is skipped and the loop
\* goes on with the next one.
C19_FanOutSkipsBatch ==
    [][(phase = "fanout"
           /\ Asked(runs[1].log, runs'[1].log)
           /\ runs'[1].log[Len(runs'[1].log)].kind = "error")
          => /\ allRepos' = allRepos
             /\ runs'[1].i = runs[1].i + BatchSize
             /\ phase' \in {"fanout", "global", "dedup"}]_vars

\* C20 (limit early stop): the limit is LIMIT, or 4000 when LIMIT is unset or
\* 0, and a search query is only issued while fewer results than the limit
\* have been collected, in the fan-out loop and in the global loop.
C20_LimitEarlyStop ==
    [][/\ runs'[1].limit = IF runs'[1].env = 0 THEN 4000 ELSE runs'[1].env
       /\ Asked(runs[1].log, runs'[1].log) => Len(allRepos) < runs[1].limit]_vars

\* the fan-out phase reached the limit with a batch left, and the run went
\* on to the deduplication without a query of the global search
C20_Witness ==
    /\ phase = "dedup"
    /\ Len(allRepos) >= runs[1].limit
    /\ runs[1].i + BatchSize < runs[1].links
    /\ Len(runs[1].log) > 0
    /\ \A k \in DOMAIN runs[1].log : runs[1].log[k].loop = "fanout"

\* the place where the searches first returned the path
FirstFound(collected, path) ==
    CHOOSE i \in DOMAIN collected :
        /\ collected[i].path = path
        /\ \A j \in 1..(i - 1) : collected[j].path # path

\* C21 (sequential order): while the searches and the deduplication run, no
\* ingestion has been attempted; the candidates are attempted one at a time,
\* each once, in the order in which the searches first returned them; and a
\* run that ends has attempted every candidate the searches returned.
C21_SequentialOrder ==
    /\ phase \in {"fanout", "global", "dedup"}
          => runs[1].attempted = <<>> /\ runs[1].cursor = 1
    /\ runs[1].cursor = Len(runs[1].attempted) + 1
    /\ \A k \in DOMAIN runs[1].attempted :
          /\ \E i \in DOMAIN runs[1].collected :
                runs[1].collected[i].path = runs[1].attempted[k].path
          /\ \A j \in 1..(k - 1) :
                /\ runs[1].attempted[j].path # runs[1].attempted[k].path
                /\ FirstFound(runs[1].collected, runs[1].attempted[j].path)
                      < FirstFound(runs[1].collected, runs[1].attempted[k].path)
    /\ phase = "done"
          => \A i \in DOMAIN runs[1].collected :
                \E k \in DOMAIN runs[1].attempted :
                   runs[1].attempted[k].path = runs[1].collected[i].path

\* a run has ended after the searches returned one of two paths twice
C21_Witness ==
    /\ phase = "done"
    /\ Len(runs[1].attempted) = 2
    /\ Len(runs[1].collected) > 2

\* C22 (stale decision under overlap): a force=false run whose SaveRepo
\* updates with the decision "accepted" that it made at its read writes its
\* manifest over whatever the table holds by then (last writer wins), and the
\* table holds one record for the fullName.
C22_StaleDecisionWins ==
    [][\A r \in DOMAIN runs :
          (/\ runs[r].pc = "exec" /\ runs'[r].pc = "idle"
           /\ runs'[r].res = "ok"
           /\ ~runs[r].force /\ ~runs[r].proposed
           /\ runs[r].count > 0)
             => /\ CountRows(store', runs[r].repo.fullName) = 1
                /\ store'[FindRow(store', runs[r].repo.fullName)].manifest
                      = runs[r].repo.manifest]_vars

\* the interleaving of the claim: two force=false runs read before either
\* wrote; one inserted a non-empty manifest, the other then found the record
\* at SaveRepo's count and replaced that manifest with its own
C22_Witness ==
    /\ DOMAIN runs = Runs
    /\ \E r1, r2 \in Runs :
          /\ r1 # r2
          /\ runs[r1].repo.fullName = runs[r2].repo.fullName
          /\ ~runs[r1].force /\ ~runs[r2].force
          /\ ~runs[r1].proposed /\ ~runs[r2].proposed
          /\ runs[r1].res = "ok" /\ runs[r2].res = "ok"
          /\ runs[r1].count = 0 /\ runs[r2].count = 1
          /\ runs[r1].repo.manifest.k = "list" /\ Len(runs[r1].repo.manifest.v) > 0
          /\ runs[r2].repo.manifest # runs[r1].repo.manifest
          /\ CountRows(store, runs[r1].repo.fullName) = 1
          /\ store[FindRow(store, runs[r1].repo.fullName)].manifest
                = runs[r2].repo.manifest

\* the record has no tool definitions: there is no record, or its
\* tool_definitions is empty or the placeholder
NoStoredTools(st, fn) ==
    \/ FindRow(st, fn) = 0
    \/ st[FindRow(st, fn)].tools \in {SqlNull, EmptyText, Placeholder}

\* C23 (backfill trigger): in an ingestion that reaches the analysis and gets
\* a config list, the backfill is called exactly when a config is marked
\* preferred and the record's stored tool definitions are empty or the
\* placeholder, or force is set.
C23_BackfillTrigger ==
    [][(/\ IsIngest(last'.op)
        /\ last'.oracle /\ ~last'.oracleErr
        /\ Len(last'.list) > 0)
          => (last'.backfill # "skipped"
                <=> /\ \E i \in DOMAIN last'.list : last'.list[i].preferred
                    /\ NoStoredTools(store, last'.fullName) \/ last'.force)]_vars

\* The inline AddRepo, which reads tool_definitions from the table, does what
\* C23 says when its Scan of the record succeeds; and no version calls the
\* backfill without a preferred config.
C23_InlineTrigger ==
    [][/\ (/\ last'.op = "AddRepo"
           /\ FindRow(store, last'.fullName) # 0
                 => ScanOK(store[FindRow(store, last'.fullName)].manifest)
           /\ last'.oracle /\ ~last'.oracleErr
           /\ Len(last'.list) > 0)
             => (last'.backfill # "skipped"
                   <=> /\ \E i \in DOMAIN last'.list : last'.list[i].preferred
                       /\ NoStoredTools(store, last'.fullName) \/ last'.force)
       /\ (IsIngest(last'.op) /\ last'.backfill # "skipped")
             => \E i \in DOMAIN last'.list : last'.list[i].preferred]_vars

\* C26 (approve without a proposal): approving a record whose proposedManifest
\* is NULL or the placeholder leaves its non-empty accepted manifest as it is.
C26_ApproveWithoutProposal ==
    [][(/\ last'.op = "approve"
        /\ store[last'.id].proposed \in {SqlNull, Placeholder}
        /\ store[last'.id].manifest.k = "list"
        /\ Len(store[last'.id].manifest.v) > 0)
          => store'[last'.id].manifest = store[last'.id].manifest]_vars

\* C24 (backfill retry has no ceiling): a rate-limit error on either search
\* starts the whole sequence again with nothing kept, however often that has
\* happened; once the rate-limit errors stop, the call returns a tool list
\* or an error, as one of the outcomes an ingestion sees.
C24_RetryWithoutCeiling ==
    /\ [][ScrapeRateLimited
             => /\ phase' = "query1"
                /\ allRepos' = <<>>
                /\ ~runs'[1].result.done]_vars
    /\ [](phase = "returned" => runs[1].result \in
             {[done |-> TRUE, err |-> a.err, tools |-> a.tools] : a \in ScrapeAnswers})
    /\ <>(phase = "returned")

\* the call has started again as often as is counted, from the second search
C24_Witness ==
    /\ runs[1].restarts = MaxRestartsSeen
    /\ phase = "query2"

\* Without the assumption that rate-limit errors stop, the call need not
\* return: checked against SpecScrapeStorm, this fails on a behaviour of
\* rate-limit errors only.
C24_ReturnsWhateverTheService == <>(phase = "returned")

C27_ToolsKeptWithoutBackfill ==
    [][(/\ IsIngest(last'.op)
        /\ last'.oracle
        /\ last'.backfill = "skipped"
        /\ last'.res = "ok" /\ last'.execs = 1
        /\ FindRow(store, last'.fullName) # 0)
          => store'[FindRow(store, last'.fullName)].tools
                = store[FindRow(store, last'.fullName)].tools]_vars

\* C28 (direct write clears the proposal): an ingestion or a re-run of the
\* extraction that updates an existing record with the decision "accepted"
\* stores its manifest and sets proposedManifest to the placeholder, whatever
\* proposal the record held.
C28_DirectWriteClearsProposal ==
    [][(/\ IsReanalysis(last'.op)
        /\ last'.oracle
        /\ ~last'.proposed
        /\ last'.res = "ok" /\ last'.execs = 1
        /\ FindRow(store, last'.fullName) # 0)
          => /\ store'[FindRow(store, last'.fullName)].proposed = Placeholder
             /\ ~last'.oracleErr
                   => store'[FindRow(store, last'.fullName)].manifest
                         = Marshal(last'.list)]_vars

\* a forced ingestion has written its analysis into the manifest of a stored
\* record, whose proposedManifest is the placeholder
C28_Witness ==
    /\ IsReanalysis(last.op)
    /\ last.oracle /\ ~last.oracleErr
    /\ last.force /\ ~last.proposed
    /\ last.res = "ok" /\ last.execs = 1
    /\ nops > 1
    /\ FindRow(store, last.fullName) # 0
    /\ store[FindRow(store, last.fullName)].proposed = Placeholder
    /\ store[FindRow(store, last.fullName)].manifest = Marshal(last.list)

\* C29 (aborted ingestion is retried): an ingestion of a stored record that
\* ends with an error leaves the stored README as it was; an ingestion whose
\* fetched README differs from the stored one is not skipped as unchanged;
\* and the stored README only changes in a write that stores the analysis.
C29_AbortedIsRetried ==
    [][(IsIngest(last'.op) /\ FindRow(store, last'.fullName) # 0)
          => /\ last'.res = "err"
                   => store'[FindRow(store, last'.fullName)].readme
                         = store[FindRow(store, last'.fullName)].readme
             /\ (/\ store[FindRow(store, last'.fullName)].readme # last'.readme
                 /\ last'.res = "ok")
                   => last'.oracle
             /\ store'[FindRow(store, last'.fullName)].readme
                   # store[FindRow(store, last'.fullName)].readme
                   => /\ last'.oracle /\ ~last'.oracleErr /\ last'.res = "ok"
                      /\ store'[FindRow(store, last'.fullName)].readme = last'.readme
                      /\ Marshal(last'.list)
                            \in {store'[FindRow(store, last'.fullName)].manifest,
                                 store'[FindRow(store, last'.fullName)].proposed}]_vars

\* an ingestion of a stored record with a changed README has just aborted at
\* the backfill, without force; the stored README is still the old one
C29_Witness ==
    /\ IsIngest(last.op)
    /\ ~last.force
    /\ last.oracle /\ ~last.oracleErr
    /\ last.backfill = "failed"
    /\ last.res = "err"
    /\ FindRow(store, last.fullName) # 0
    /\ store[FindRow(store, last.fullName)].readme # last.readme

\* C30 (ingestion frame): whatever its outcome, an AddRepo call leaves every
\* record stored under another fullName than the one it derived with all its
\* fields, at its place in the table, and adds at most the one record of its
\* fullName.
C30_IngestionFrame ==
    [][IsIngest(last'.op)
          => /\ \A i \in DOMAIN store :
                   store[i].fullName # last'.fullName
                      => /\ i \in DOMAIN store'
                         /\ store'[i] = store[i]
             /\ \A i \in DOMAIN store' \ DOMAIN store :
                   store'[i].fullName = last'.fullName
             /\ CountRows(store', last'.fullName) <= 1]_vars

\* an ingestion has updated the second of two stored records
C30_Witness ==
    /\ Len(store) = 2
    /\ IsIngest(last.op)
    /\ last.oracle /\ last.res = "ok" /\ last.execs = 1
    /\ nops = 3
    /\ last.fullName = store[2].fullName
    /\ store[2].readme = last.readme
    /\ store[1].readme # last.readme

====
